---- MODULE Spec2Model ----
(***************************************************************************)
(* The rate-limited request queue of src/services/firecrawl/utils.ts       *)
(* (class RequestQueue) and the Firecrawl clients that issue their HTTP    *)
(* calls through it (or not).                                              *)
(*                                                                         *)
(* JavaScript runs one macrotask at a time, so every action below is one   *)
(* synchronous run of code up to the point where it has to wait for the    *)
(* network or for a timer.                                                 *)
(*                                                                         *)
(* Clock.  Every time the program holds is kept as its distance in         *)
(* milliseconds from the current Date.now(): a recorded timestamp ts as    *)
(* its age now - ts, a timer as the time left until it is due.  The code   *)
(* only ever compares a timestamp with now - 60000 and subtracts it from   *)
(* now, so ages beyond the window are all alike and are kept as WindowMs.  *)
(***************************************************************************)
EXTENDS Integers, Sequences, FiniteSets, TLC

\* ---------------------------------------------------------------- bounds
MaxTasks == 3          \* requests handed to enqueue in one run
MaxCeiling == 2        \* configured maxRequestsPerMinute ranges over 1..MaxCeiling
MaxRetryCount == 1     \* configured retryCount ranges over 0..MaxRetryCount
MaxQueries == 2        \* queries of one batchResearch call
MaxConcurrent == 2     \* maxConcurrent of a batchResearch call ranges over 1..MaxConcurrent
MaxParallelTasks == 3  \* tasks passed to a batch runner in one call
MaxGroupSize == 2      \* maxConcurrent of a batch runner call
MaxEmptyRounds == 2    \* rounds of the loop followed once its index has left the list
MaxChunks == 3         \* chunks the API streams for one structured analysis

\* ------------------------------------------------------ program constants
WindowMs == 60000
BufferMs == 100
DefaultMaxRequestsPerMinute == 60
DefaultRetryCount == 3
DefaultRetryDelayMs == 1000
RateLimitStatus == 429
DefaultTimeoutMs == 30000
DefaultErrorStatus == 500

HalfWindow == WindowMs \div 2

\* ------------------------------------------------------------ data types
\* An option of RateLimitOptions: left out (undefined) or given a number.
Unset == [given |-> FALSE, value |-> 0]
Given(n) == [given |-> TRUE, value |-> n]

\* What one invocation of a request function ends with.
Ok == [cls |-> "none", statusCode |-> 200]
NoResult == [cls |-> "none", statusCode |-> 0]
FirecrawlError(status) == [cls |-> "FirecrawlError", statusCode |-> status]
OpenAIError(status) == [cls |-> "OpenAIError", statusCode |-> status]
Errors == {FirecrawlError(RateLimitStatus), FirecrawlError(500), OpenAIError(RateLimitStatus)}

\* What the request function of makeRequest ends with: the response's JSON, or a
\* FirecrawlError carrying the status (500 for a transport failure).
ClientErrors == {FirecrawlError(RateLimitStatus), FirecrawlError(500)}

\* What a fetch of the client ends with: an HTTP response with its status, or a
\* transport failure (fetch, or the reading of the body, rejects).
HttpStatuses == {200, 401, 404, 429, 500, 503}
Responses == [kind : {"http"}, status : HttpStatuses] \cup {[kind |-> "transport", status |-> 0]}
NoResponse == [kind |-> "none", status |-> 0]

Requests == 1..MaxTasks
Queries == 1..MaxQueries

\* The batch runners: executeParallel of services/firecrawl/utils.ts called as
\* it is, called through the timeout wrapper of FirecrawlClient.executeParallel,
\* and executeParallelTasks of services/openai/utils.ts.
Runners == {"executeParallel", "client.executeParallel", "executeParallelTasks"}
TaskIds == 1..MaxParallelTasks

\* The two implementations of createFirecrawlClient.
Clients == {"firecrawl/client", "firecrawl"}
Operations == {"deepResearch", "checkResearchStatus"}

VARIABLES
  config,             \* the RateLimitOptions the queue was constructed with
  options,            \* this.options
  queue,              \* this.queue: the requests waiting for admission
  processing,         \* this.processing
  requestTimestamps,  \* this.requestTimestamps, each as its age
  pending,            \* the pending continuations of processQueue invocations
  req,                \* per request: where its closure stands
  nextId,             \* the next request to be passed to enqueue
  run,                \* the batchResearch call: executeParallel's loop
  task,               \* per query of the batch: its task, raced against its timer
  parallel,           \* the call of a batch runner: its arguments, loop variable and lists
  tasks,              \* per task passed to the batch runner: the task, its race, its timer
  generator,          \* the async generator of structuredAnalysisStream, with the API's stream
  consumer,           \* runAdvancedAnalysis: its for-await loop and its streamResult
  poll,               \* an integration script at its polling loop: finalResponse.status, attempts
  lastResponse,       \* history: what the latest fetch of the client ended with
  fetches,            \* history: the fetches issued by the latest step that issued any, each with its route
  admitOrder,         \* history: the requests admitted so far, in admission order
  admitTimes,         \* history: the ages of the admissions of the trailing window
  callTimes           \* history: the ages of the request-function invocations of the trailing window

vars == <<config, options, queue, processing, requestTimestamps, pending, req, nextId,
          run, task, parallel, tasks, generator, consumer, poll, lastResponse, fetches, admitOrder, admitTimes, callTimes>>

\* const maxAttempts = 10 of the polling loops.
maxAttempts == 10

\* The integration scripts with a polling loop.
Scripts == {"test-services.js", "test-final.js", "test-direct-api.js"}

\* DeepResearchResponse.status.
ResearchStatuses == {"pending", "in_progress", "completed", "failed"}

\* A script that has not reached its polling loop.
NoPoll == [script |-> "none", pc |-> "idle", initial |-> "none", status |-> "none", attempts |-> 0]

\* What the queue's own steps leave alone.
clientVars == <<run, task>>

\* The batch runner called with tasks of its caller's own.
parallelVars == <<parallel, tasks>>

\* The streamed structured analysis and its consumer.
streamVars == <<generator, consumer>>

\* The polling loop of an integration script.
pollVars == <<poll>>

\* What a batch runner with tasks of its caller's own leaves alone.
queueVars == <<config, options, queue, processing, requestTimestamps, pending, req, nextId,
               run, task, lastResponse, fetches, admitOrder, admitTimes, callTimes>>

\* ------------------------------------------------------------ constructor
\* JavaScript's `x || d`: undefined and 0 are falsy.
OrDefault(opt, d) == IF opt.given /\ opt.value # 0 THEN opt.value ELSE d

\* Mutant: the defaults are used only when no option at all is given.
RequestQueueOptionsAllOrNone(c) ==
  IF c.maxRequestsPerMinute.given \/ c.retryCount.given \/ c.retryDelayMs.given
  THEN [maxRequestsPerMinute |-> c.maxRequestsPerMinute.value,
        retryCount |-> c.retryCount.value,
        retryDelayMs |-> c.retryDelayMs.value]
  ELSE [maxRequestsPerMinute |-> DefaultMaxRequestsPerMinute,
        retryCount |-> DefaultRetryCount,
        retryDelayMs |-> DefaultRetryDelayMs]

RequestQueueOptions(c) ==
  [maxRequestsPerMinute |-> OrDefault(c.maxRequestsPerMinute, DefaultMaxRequestsPerMinute),
   retryCount |-> OrDefault(c.retryCount, DefaultRetryCount),
   retryDelayMs |-> OrDefault(c.retryDelayMs, DefaultRetryDelayMs)]

\* The configurations explored.  GridConfigs set the backoff delay to half a
\* window.  FineConfigs leave it at its default of 1000 ms, with the given retry
\* counts only: with the default of three retries it puts the clock on a grid too
\* fine to enumerate.
Ceilings == {Unset} \cup {Given(n) : n \in 1..MaxCeiling}

GridConfigs ==
  [maxRequestsPerMinute : Ceilings,
   retryCount : {Unset} \cup {Given(n) : n \in 0..MaxRetryCount},
   retryDelayMs : {Given(HalfWindow)}]

FineConfigs ==
  [maxRequestsPerMinute : Ceilings,
   retryCount : {Given(n) : n \in 1..MaxRetryCount},
   retryDelayMs : {Unset}]

Configs == GridConfigs \cup FineConfigs

\* What a caller may pass to the constructor for one option: nothing, a negative
\* number, zero, or the positive number v.
AnyOption(v) == {Unset, Given(-1), Given(0), Given(v)}

AnyConfigs ==
  [maxRequestsPerMinute : AnyOption(1),
   retryCount : AnyOption(1),
   retryDelayMs : AnyOption(HalfWindow)]

\* st: new (not yet passed to enqueue), queued, calling (the request function's
\* promise is pending), backoff (executeWithRetry's delay is pending), resolved,
\* rejected.  attempt: executeWithRetry's parameter, which is also the number of
\* invocations of the request function so far.  last: what the latest invocation
\* ended with.  due: the time left of the backoff delay.  settles: the calls of
\* resolve and reject so far.  client, op: the client operation whose makeRequest
\* passed the request to the queue ("none": another user of the requester).
NewRequest == [st |-> "new", attempt |-> 0, last |-> NoResult, due |-> 0, settles |-> 0,
               client |-> "none", op |-> "none"]

\* st: idle, racing (Promise.race is pending), fulfilled, failed, timedOut.
\* r: the request its deepResearch call passed to the queue.  timer, due: the
\* timeout timer, which is never cleared, and the time left until it fires.
NewTask == [st |-> "idle", r |-> 0, timer |-> FALSE, due |-> 0]

\* A failure of task k: "error" (its promise rejected), "timeout" (its timer
\* fired first) or "thrown" (the task function threw when invoked).
NoFailure == [task |-> 0, error |-> "none"]
Failure(k, e) == [task |-> k, error |-> e]

\* throws: the task function throws when invoked (an input).  own: the task's
\* own promise: idle (not invoked), running, value (fulfilled with the task's
\* value), null (fulfilled with null), error (rejected), threw.  race: what the
\* promise the runner holds for the task settled with: none, pending, value,
\* null, error, timeout.  watched: the runner's Promise.all of the current group
\* has a handler on that promise.  timer: the timeout timer is pending.
NewParallelTask == [throws |-> FALSE, own |-> "idle", race |-> "none", watched |-> FALSE,
                    timer |-> FALSE]

\* i: the loop variable (1-based).  results, errors: the lists of the code;
\* a result is the number of its task.  thrown: what the call rejected with.
\* firstFailure: history, the first failure of any task of the call.
NoParallel == [impl |-> "none", status |-> "idle", n |-> 0, maxConcurrent |-> 1,
               abortOnError |-> FALSE, i |-> 1, results |-> <<>>, errors |-> <<>>,
               thrown |-> NoFailure, firstFailure |-> NoFailure]

\* A chunk of the API's stream, by what combineStreamChunks looks at: whether
\* its delta carries a function name, and function arguments.
StreamChunks == [functionName : BOOLEAN, functionArguments : BOOLEAN]
ApiStreams == UNION {[1..n -> StreamChunks] : n \in 0..MaxChunks}

\* What a call of next() fulfils with.
IteratorResult(v, d) == [value |-> v, done |-> d]
NoIteratorResult == [value |-> "none", done |-> FALSE]

\* state: none (not created), suspendedStart, suspendedYield, completed.  api:
\* whether chat.completions.create gives a stream or rejects.  stream: the
\* chunks of that stream.  parses: whether the combined arguments are JSON.
\* chunks: chunks.length, the chunks yielded so far.
NoGenerator == [state |-> "none", api |-> "ok", stream |-> <<>>, parses |-> TRUE, chunks |-> 0]

\* pc: idle, loop (in the for-await loop), afterLoop, done, threw.
\* streamedChunks: the iterations of the loop's body.  streamResult: what the
\* next() after the loop gave.
NoConsumer == [pc |-> "idle", streamedChunks |-> 0, streamResult |-> NoIteratorResult]

NoRun == [status |-> "idle", n |-> 0, maxConcurrent |-> 1, abortOnError |-> FALSE,
          first |-> 1, results |-> <<>>, errors |-> 0]

\* The state the constructor and the field initialisers leave.
Constructed ==
  /\ options = RequestQueueOptions(config)
  /\ queue = <<>>
  /\ processing = FALSE
  /\ requestTimestamps = <<>>
  /\ pending = <<>>
  /\ req = [r \in Requests |-> NewRequest]
  /\ nextId = 1
  /\ run = NoRun
  /\ task = [k \in Queries |-> NewTask]
  /\ parallel = NoParallel
  /\ tasks = [k \in TaskIds |-> NewParallelTask]
  /\ generator = NoGenerator
  /\ consumer = NoConsumer
  /\ poll = NoPoll
  /\ lastResponse = NoResponse
  /\ fetches = {}
  /\ admitOrder = <<>>
  /\ admitTimes = <<>>
  /\ callTimes = <<>>

Init == config \in Configs /\ Constructed

\* --------------------------------------------------------------- helpers
Max(a, b) == IF a >= b THEN a ELSE b
Min(a, b) == IF a <= b THEN a ELSE b

RemoveAt(s, i) == SubSeq(s, 1, i - 1) \o SubSeq(s, i + 1, Len(s))

Settled(r) == req[r].st \in {"resolved", "rejected"}

\* ----------------------------------------------------------------- clock
\* d milliseconds pass: ages grow, the time left of every timer shrinks.
Older(ages, d) == [k \in 1..Len(ages) |-> Min(ages[k] + d, WindowMs)]

\* A history of the trailing window forgets what has left the window.
Trailing(ages, d) == SelectSeq(Older(ages, d), LAMBDA a : a < WindowMs)

PendingAfter(pend, d) == [k \in 1..Len(pend) |-> [pend[k] EXCEPT !.due = Max(@ - d, 0)]]

RequestsAfter(rq, d) == [r \in Requests |-> [rq[r] EXCEPT !.due = Max(@ - d, 0)]]

TasksAfter(tk, d) == [k \in Queries |-> [tk[k] EXCEPT !.due = Max(@ - d, 0)]]

\* The time left of every timer that is set.
TimersLeft ==
  {pending[i].due : i \in {j \in 1..Len(pending) : pending[j].kind = "timeout"}}
  \cup {req[r].due : r \in {x \in Requests : req[x].st = "backoff"}}
  \cup {task[k].due : k \in {x \in Queries : task[x].timer}}

\* Timers fire in the order they fall due.
IsEarliest(d) == \A x \in TimersLeft : d <= x

\* Promise reactions run before the next timer, I/O or setImmediate callback:
\* a settled request that its awaiting processQueue or its racing task has not
\* yet seen, or a settled group the runner's loop has not yet seen.
GroupOf(rn) == {k \in Queries : rn.first <= k /\ k < rn.first + rn.maxConcurrent /\ k <= rn.n}

GroupSettled == \A k \in GroupOf(run) : task[k].st \in {"fulfilled", "failed", "timedOut"}

ReactionsPending ==
  \/ \E i \in 1..Len(pending) : pending[i].kind = "await" /\ Settled(pending[i].r)
  \/ \E k \in Queries : task[k].st = "racing" /\ Settled(task[k].r)
  \/ run.status = "running" /\ GroupSettled

Quiescent == ~ReactionsPending

\* ------------------------------------------------ the code's expressions
\* Mutant: processQueue does not purge the list.
RecentTimestampsUnpurged(ts) == ts

\* requestTimestamps.filter(timestamp => timestamp > oneMinuteAgo), oneMinuteAgo = now - 60000
RecentTimestamps(ts) == SelectSeq(ts, LAMBDA age : age < WindowMs)

\* Mutant: the ceiling test off by one.
CeilingReachedOffByOne(ts) == Len(ts) > options.maxRequestsPerMinute

\* this.requestTimestamps.length >= this.options.maxRequestsPerMinute
CeilingReached(ts) == Len(ts) >= options.maxRequestsPerMinute

\* Mutant: the buffer is taken off the wait instead of being added to it.
WaitDelayShort(ts) == (WindowMs - ts[1]) - BufferMs

\* setTimeout's reading of its delay: one below 1, or NaN, is taken as 1.
TimerDelay(ms) == IF ms < 1 THEN 1 ELSE ms

\* waitTime + 100 with waitTime = 60000 - (now - oldestTimestamp), oldestTimestamp
\* = requestTimestamps[0]: undefined for an empty list, and the sum is then NaN.
WaitDelay(ts) == IF ts = <<>> THEN TimerDelay(0) ELSE TimerDelay((WindowMs - ts[1]) + BufferMs)

\* Mutant: pop() instead of shift().
NextRequestFromTail(q) == q[Len(q)]

\* this.queue.shift()
NextRequest(q) == Head(q)

\* Mutant: the status is tested, the class of the error is not.
IsRateLimitErrorByStatusOnly(e) == e.statusCode = RateLimitStatus

\* error instanceof FirecrawlError && error.statusCode === 429
IsRateLimitError(e) == e.cls = "FirecrawlError" /\ e.statusCode = RateLimitStatus

\* Mutant: executeWithRetry rethrows every error.
ShouldRetryNever(e, attempt) == FALSE

\* the negation of executeWithRetry's throw condition
ShouldRetry(e, attempt) == IsRateLimitError(e) /\ ~(attempt > options.retryCount)

\* Mutant: the same delay before every retry.
BackoffDelayConstant(attempt) == options.retryDelayMs

\* this.options.retryDelayMs * attempt
BackoffDelay(attempt) == options.retryDelayMs * attempt

\* Mutant: enqueue calls processQueue whatever the flag says.
StartsDrainAlways == TRUE

\* enqueue's `if (!this.processing)`
StartsDrain == ~processing

\* Mutant: the flag is left set when the queue has drained.
ProcessingWhenDrainedStuck == TRUE

\* processQueue on an empty queue: this.processing = false
ProcessingWhenDrained == FALSE

\* A settled request's closure is dropped: only its promise's state remains.
Released(q) == [q EXCEPT !.attempt = 0, !.last = NoResult, !.client = "none", !.op = "none"]

\* Mutant: a rejected request ends the drain instead of being logged and passed over.
AfterAwaitStopOnReject(c) ==
  IF req[c.r].st = "rejected" THEN [c EXCEPT !.kind = "ended"] ELSE [c EXCEPT !.kind = "immediate"]

\* What processQueue does once `await nextRequest()` has returned or thrown:
\* setImmediate(() => this.processQueue()).
AfterAwait(c) == [c EXCEPT !.kind = "immediate"]

\* The continuation processQueue leaves behind after starting request r:
\* it awaits the closure's promise.
AwaitRequest(r) == [kind |-> "await", r |-> r, due |-> 0]

\* Whether makeRequest of client c wraps its fetch in rateLimiter.request:
\* services/firecrawl/client does, services/firecrawl.ts has no rate limiter.
RoutesThroughQueue(c) == c = "firecrawl/client"

\* config.defaultParallelOptions?.timeoutMs || 30000, no option given
TimeoutMs == DefaultTimeoutMs

\* response.ok
ResponseOk(resp) == resp.status >= 200 /\ resp.status <= 299

\* handleApiError(error, serviceName) for an Error: the service's error class, status 500.
HandleApiError(serviceName) ==
  IF serviceName = "Firecrawl" THEN FirecrawlError(DefaultErrorStatus)
  ELSE IF serviceName = "OpenAI" THEN OpenAIError(DefaultErrorStatus)
  ELSE [cls |-> "ApiError", statusCode |-> DefaultErrorStatus]

\* Mutant: the status branch throws a plain Error, which the catch hands to handleApiError.
MakeRequestOutcomeUntyped(resp) ==
  IF resp.kind = "http" /\ ResponseOk(resp) THEN Ok ELSE HandleApiError("Firecrawl")

\* What the request function of makeRequest settles with, given what its fetch
\* ended with: every branch of the status test throws a FirecrawlError with
\* response.status, which the catch rethrows; anything else thrown goes to
\* handleApiError.
MakeRequestOutcome(resp) ==
  IF resp.kind = "transport" THEN HandleApiError("Firecrawl")
  ELSE IF ~ResponseOk(resp) THEN FirecrawlError(resp.status)
  ELSE Ok

\* The fetch the request function of a client's makeRequest issues when invoked.
FetchOf(q) ==
  IF q.client = "none" THEN {} ELSE {[client |-> q.client, op |-> q.op, route |-> "queue"]}

\* Requests not yet passed to enqueue and not spoken for by the running batch.
FreeRequests ==
  (MaxTasks + 1 - nextId)
  - (IF run.status = "running" THEN Cardinality({k \in Queries : k <= run.n /\ task[k].st = "idle"}) ELSE 0)

\* --------------------------------------------------------- processQueue
\* One synchronous run of processQueue on queue q, with the other continuations
\* pend and the requests rq, after the clock has been brought up to date.
\* Admitting a request runs its closure up to the first invocation of the
\* request function.
ProcessQueue(q, pend, rq, ts0, at0, ct0, later) ==
  IF q = <<>>
  THEN /\ processing' = ProcessingWhenDrained
       /\ queue' = q \o later
       /\ pending' = pend
       /\ req' = rq
       /\ requestTimestamps' = ts0
       /\ admitTimes' = at0
       /\ callTimes' = ct0
       /\ UNCHANGED <<admitOrder, fetches>>
  ELSE LET ts == RecentTimestamps(ts0) IN
       /\ processing' = TRUE
       /\ requestTimestamps' = IF CeilingReached(ts) THEN ts ELSE Append(ts, 0)
       /\ IF CeilingReached(ts)
          THEN /\ queue' = q \o later
               /\ req' = rq
               /\ pending' = Append(pend, [kind |-> "timeout", r |-> 0, due |-> WaitDelay(ts)])
               /\ admitTimes' = at0
               /\ callTimes' = ct0
               /\ UNCHANGED <<admitOrder, fetches>>
          ELSE LET r == NextRequest(q) IN
               /\ queue' = SelectSeq(q, LAMBDA x : x # r) \o later
               /\ admitOrder' = Append(admitOrder, r)
               /\ admitTimes' = Append(at0, 0)
               /\ callTimes' = Append(ct0, 0)
               /\ fetches' = FetchOf(rq[r])
               /\ req' = [rq EXCEPT ![r].st = "calling", ![r].attempt = 1]
               /\ pending' = Append(pend, AwaitRequest(r))

\* A synchronous run of code passes the requests ids to enqueue, one after the
\* other, for operation op of client c.  The first call of enqueue starts a drain
\* unless one is active; after it the flag is set, so the others only push.
EnqueueAll(ids, c, op) ==
  /\ nextId' = nextId + Len(ids)
  /\ LET rq == [r \in Requests |->
                 IF \E k \in 1..Len(ids) : ids[k] = r
                 THEN [req[r] EXCEPT !.st = "queued", !.client = c, !.op = op]
                 ELSE req[r]]
     IN IF StartsDrain
        THEN ProcessQueue(Append(queue, Head(ids)), pending, rq,
                          requestTimestamps, admitTimes, callTimes, Tail(ids))
        ELSE /\ queue' = queue \o ids
             /\ req' = rq
             /\ UNCHANGED <<processing, requestTimestamps, pending, fetches,
                            admitOrder, admitTimes, callTimes>>

\* ----------------------------------------------------------------- actions
\* enqueue(requestFn): push the closure, start a drain unless one is active.
Enqueue ==
  /\ FreeRequests >= 1
  /\ EnqueueAll(<<nextId>>, "none", "none")
  /\ UNCHANGED <<pollVars, streamVars, parallelVars, lastResponse, config, options, clientVars>>

\* The request function's promise fulfils: executeWithRetry returns, resolve(result).
CallSucceeds(r) ==
  /\ Quiescent
  /\ req[r].st = "calling"
  /\ req' = [req EXCEPT ![r].st = "resolved", ![r].last = Ok, ![r].settles = @ + 1]
  /\ UNCHANGED <<pollVars, streamVars, parallelVars, lastResponse, config, options, queue, processing, requestTimestamps, pending, nextId,
                 clientVars, fetches, admitOrder, admitTimes, callTimes>>

\* The request function's promise rejects with e: executeWithRetry's catch either
\* starts the backoff delay or rethrows, and then the closure calls reject(error).
CallFails(r, e) ==
  /\ Quiescent
  /\ req[r].st = "calling"
  /\ req[r].client # "none" => e \in ClientErrors
  /\ IF ShouldRetry(e, req[r].attempt)
     THEN req' = [req EXCEPT ![r].st = "backoff", ![r].last = e,
                             ![r].due = TimerDelay(BackoffDelay(req[r].attempt))]
     ELSE req' = [req EXCEPT ![r].st = "rejected", ![r].last = e, ![r].settles = @ + 1]
  /\ UNCHANGED <<pollVars, streamVars, parallelVars, lastResponse, config, options, queue, processing, requestTimestamps, pending, nextId,
                 clientVars, fetches, admitOrder, admitTimes, callTimes>>

\* The fetch of a client's request ends with resp: the request function settles
\* with MakeRequestOutcome(resp), and executeWithRetry and the closure go on as
\* in CallSucceeds and CallFails.
ProviderResponds(r, resp) ==
  /\ Quiescent
  /\ req[r].st = "calling"
  /\ req[r].client # "none"
  /\ lastResponse' = resp
  /\ LET e == MakeRequestOutcome(resp) IN
     req' = IF e = Ok
            THEN [req EXCEPT ![r].st = "resolved", ![r].last = Ok, ![r].settles = @ + 1]
            ELSE IF ShouldRetry(e, req[r].attempt)
                 THEN [req EXCEPT ![r].st = "backoff", ![r].last = e,
                                  ![r].due = TimerDelay(BackoffDelay(req[r].attempt))]
                 ELSE [req EXCEPT ![r].st = "rejected", ![r].last = e, ![r].settles = @ + 1]
  /\ UNCHANGED <<pollVars, streamVars, parallelVars, config, options, queue, processing, requestTimestamps, pending,
                 nextId, clientVars, fetches, admitOrder, admitTimes, callTimes>>

\* The backoff timer fires, when it is due or later:
\* executeWithRetry(requestFn, attempt + 1) invokes the request function again.
BackoffFires(r) ==
  /\ Quiescent
  /\ req[r].st = "backoff"
  /\ IsEarliest(req[r].due)
  /\ LET d == req[r].due IN
     /\ req' = [RequestsAfter(req, d) EXCEPT ![r].st = "calling", ![r].attempt = @ + 1]
     /\ pending' = PendingAfter(pending, d)
     /\ task' = TasksAfter(task, d)
     /\ requestTimestamps' = Older(requestTimestamps, d)
     /\ admitTimes' = Trailing(admitTimes, d)
     /\ callTimes' = Append(Trailing(callTimes, d), 0)
  /\ fetches' = FetchOf(req[r])
  /\ UNCHANGED <<pollVars, streamVars, parallelVars, lastResponse, config, options, queue, processing, nextId, run, admitOrder>>

\* `await nextRequest()` returns once the closure has settled its promise.
ResumeAfterAwait(i) ==
  /\ pending[i].kind = "await"
  /\ Settled(pending[i].r)
  /\ pending' = [pending EXCEPT ![i] = AfterAwait(@)]
  /\ req' = [req EXCEPT ![pending[i].r] = Released(@)]
  /\ UNCHANGED <<pollVars, streamVars, parallelVars, lastResponse, config, options, queue, processing, requestTimestamps, nextId,
                 clientVars, fetches, admitOrder, admitTimes, callTimes>>

\* The setImmediate callback runs processQueue.
ImmediateFires(i) ==
  /\ Quiescent
  /\ pending[i].kind = "immediate"
  /\ ProcessQueue(queue, RemoveAt(pending, i), req, requestTimestamps, admitTimes, callTimes, <<>>)
  /\ UNCHANGED <<pollVars, streamVars, parallelVars, lastResponse, config, options, nextId, clientVars>>

\* The rate-window setTimeout callback runs processQueue, when it is due or later.
TimeoutFires(i) ==
  /\ Quiescent
  /\ pending[i].kind = "timeout"
  /\ IsEarliest(pending[i].due)
  /\ LET d == pending[i].due IN
     /\ ProcessQueue(queue, PendingAfter(RemoveAt(pending, i), d), RequestsAfter(req, d),
                     Older(requestTimestamps, d), Trailing(admitTimes, d), Trailing(callTimes, d), <<>>)
     /\ task' = TasksAfter(task, d)
  /\ UNCHANGED <<pollVars, streamVars, parallelVars, lastResponse, config, options, nextId, run>>

\* Half a window passes while nothing runs.
Tick ==
  /\ Quiescent
  /\ requestTimestamps' = Older(requestTimestamps, HalfWindow)
  /\ pending' = PendingAfter(pending, HalfWindow)
  /\ req' = RequestsAfter(req, HalfWindow)
  /\ task' = TasksAfter(task, HalfWindow)
  /\ admitTimes' = Trailing(admitTimes, HalfWindow)
  /\ callTimes' = Trailing(callTimes, HalfWindow)
  /\ UNCHANGED <<pollVars, streamVars, parallelVars, lastResponse, config, options, queue, processing, nextId, run, fetches, admitOrder>>

\* ------------------------------------------------------------ the clients
\* deepResearch(options) and checkResearchStatus(id) of client c: makeRequest,
\* which either passes its fetch to the queue or issues it on the spot.  A fetch
\* issued on the spot touches nothing of the queue, then or when it settles.
ClientCall(c, op) ==
  /\ IF RoutesThroughQueue(c)
     THEN /\ FreeRequests >= 1
          /\ EnqueueAll(<<nextId>>, c, op)
     ELSE /\ fetches' = {[client |-> c, op |-> op, route |-> "direct"]}
          /\ UNCHANGED <<queue, processing, requestTimestamps, pending, req, nextId,
                         admitOrder, admitTimes, callTimes>>
  /\ UNCHANGED <<pollVars, streamVars, parallelVars, lastResponse, config, options, run, task>>

\* executeParallel starts the group of rn: every task of the group sets its
\* timeout timer and calls deepResearch, whose makeRequest passes the fetch to
\* the queue, all in one synchronous run.
StartGroup(rn) ==
  LET ids == [j \in 1..Cardinality(GroupOf(rn)) |-> nextId + j - 1] IN
  /\ task' = [k \in Queries |->
                IF k \in GroupOf(rn)
                THEN [st |-> "racing", r |-> nextId + (k - rn.first), timer |-> TRUE, due |-> TimeoutMs]
                ELSE task[k]]
  /\ EnqueueAll(ids, "firecrawl/client", "batchResearch")

\* batchResearch(queries, options) with n queries: one task per query, run by
\* executeParallel in groups of maxConcurrent.
BatchResearch(n, mc, abort) ==
  /\ run.status = "idle"
  /\ FreeRequests >= n
  /\ LET rn == [NoRun EXCEPT !.status = "running", !.n = n, !.maxConcurrent = mc,
                             !.abortOnError = abort]
     IN IF n = 0
        THEN /\ run' = [rn EXCEPT !.status = "resolved"]
             /\ UNCHANGED <<task, queue, processing, requestTimestamps, pending, req, nextId,
                            fetches, admitOrder, admitTimes, callTimes>>
        ELSE /\ run' = rn
             /\ StartGroup(rn)
  /\ UNCHANGED <<pollVars, streamVars, parallelVars, lastResponse, config, options>>

\* The task's outcome as the batch.map callback of executeParallel sees it: with
\* abortOnError the first failure rejects Promise.all and with it the run.
RunAfter(rn, failed) ==
  IF ~failed THEN rn
  ELSE IF rn.abortOnError
       THEN [rn EXCEPT !.status = IF @ = "running" THEN "rejected" ELSE @]
       ELSE [rn EXCEPT !.errors = @ + 1]

\* The request of a racing task has settled: Promise.race settles with it.
TaskSettles(k) ==
  /\ task[k].st = "racing"
  /\ Settled(task[k].r)
  /\ task' = [task EXCEPT ![k].st = IF req[task[k].r].st = "resolved" THEN "fulfilled" ELSE "failed"]
  /\ run' = RunAfter(run, req[task[k].r].st = "rejected")
  /\ UNCHANGED <<pollVars, streamVars, parallelVars, lastResponse, config, options, queue, processing, requestTimestamps, pending, req, nextId,
                 fetches, admitOrder, admitTimes, callTimes>>

\* Mutant: the timer callback takes the request of its task out of the queue.
QueueAfterTimeoutCancels(q, r) == SelectSeq(q, LAMBDA x : x # r)

\* The pending-task list after the timer callback of the request r has run:
\* the callback rejects the timeout promise and does nothing else.
QueueAfterTimeout(q, r) == q

\* The timeout timer of a task fires, when it is due or later: Promise.race
\* rejects unless it has settled.  The request stays where it is.
TaskTimeoutFires(k) ==
  /\ Quiescent
  /\ task[k].timer
  /\ IsEarliest(task[k].due)
  /\ LET d == task[k].due IN
     /\ task' = [TasksAfter(task, d) EXCEPT ![k].timer = FALSE,
                                            ![k].st = IF @ = "racing" THEN "timedOut" ELSE @]
     /\ req' = RequestsAfter(req, d)
     /\ pending' = PendingAfter(pending, d)
     /\ requestTimestamps' = Older(requestTimestamps, d)
     /\ admitTimes' = Trailing(admitTimes, d)
     /\ callTimes' = Trailing(callTimes, d)
  /\ run' = RunAfter(run, task[k].st = "racing")
  /\ queue' = QueueAfterTimeout(queue, task[k].r)
  /\ UNCHANGED <<pollVars, streamVars, parallelVars, lastResponse, config, options, processing, nextId, fetches, admitOrder>>

\* Promise.all of the group has fulfilled: the results that are not null are
\* pushed, and the loop starts the next group or returns.
GroupSettles ==
  /\ run.status = "running"
  /\ GroupSettled
  /\ LET fulfilled == SelectSeq([j \in 1..Cardinality(GroupOf(run)) |-> run.first + j - 1],
                                LAMBDA k : task[k].st = "fulfilled")
         rn == [run EXCEPT !.results = @ \o fulfilled, !.first = @ + run.maxConcurrent]
     IN IF rn.first <= rn.n
        THEN /\ run' = rn
             /\ StartGroup(rn)
        ELSE /\ run' = [rn EXCEPT !.status = "resolved"]
             /\ UNCHANGED <<task, queue, processing, requestTimestamps, pending, req, nextId,
                            fetches, admitOrder, admitTimes, callTimes>>
  /\ UNCHANGED <<pollVars, streamVars, parallelVars, lastResponse, config, options>>

\* ------------------------------------------------------ the batch runners
\* Mutant: no runner sets a timer.
NeverTimed(impl) == FALSE

\* Whether the runner races every task against a timer of timeoutMs:
\* executeParallel of services/firecrawl/utils.ts sets none.
Timed(impl) == impl # "executeParallel"

\* Whether the runner invokes the task function inside an async function of its
\* own, so that a task function that throws gives a rejected promise:
\* executeParallelTasks calls task() in the callback of batch.map itself.
InvokedInsideAsync(impl) == impl # "executeParallelTasks"

\* Array.prototype.slice's reading of an index: a negative one counts from the
\* end of the list, and either is clamped to the list.
SliceIndex(x, n) == IF x < 0 THEN Max(n + x, 0) ELSE Min(x, n)

\* tasks.slice(i, i + maxConcurrent), the loop variable being 1-based here.
Batch(rn) ==
  {k \in TaskIds : /\ SliceIndex(rn.i - 1, rn.n) < k
                   /\ k <= SliceIndex(rn.i - 1 + rn.maxConcurrent, rn.n)}

\* The members of a set of tasks in the order of the input.
InOrder(S) == SelectSeq([k \in TaskIds |-> k], LAMBDA k : k \in S)

\* Mutant: the handler of a task's failure collects it whatever abortOnError says.
InnerCatchCollects(abort) == "collect"

\* The handler of a task's failure: `if (abortOnError) throw error`, else
\* errors.push(error) and return null.
InnerCatch(abort) == IF abort THEN "rethrow" ELSE "collect"

\* Mutant: the catch around the batch swallows the error whatever abortOnError says.
OuterCatchSwallows(abort) == "continue"

\* The catch around `await Promise.all`: `if (abortOnError) throw error`, else
\* the loop goes on.
OuterCatch(abort) == IF abort THEN "throw" ELSE "continue"

\* Mutant: the value of a task that completed is taken whatever its race gave.
BatchResultOfTask(tk, k) ==
  IF tk[k].own = "value" THEN "value"
  ELSE IF tk[k].race \in {"error", "timeout", "thrown"} THEN "null" ELSE tk[k].race

\* What Promise.all fulfils with for task k: the task's result, or the null the
\* handler of its failure returned.
BatchResult(tk, k) == IF tk[k].race \in {"error", "timeout", "thrown"} THEN "null" ELSE tk[k].race

\* result !== null
IsKept(result) == result # "null"

\* History: the first failure of the call.
NoteFailure(rn, f) == IF rn.firstFailure = NoFailure THEN [rn EXCEPT !.firstFailure = f] ELSE rn

RECURSIVE StartBatch(_, _)

\* Mutant: the body of the loop is entered without the test of its head.
EnterLoopUntested(tk, rn) == StartBatch(tk, rn)

\* The head of the loop: `i < tasks.length`, else the function returns results.
EnterLoop(tk, rn) ==
  IF rn.i > rn.n
  THEN [tasks |-> tk, parallel |-> [rn EXCEPT !.status = "resolved"]]
  ELSE StartBatch(tk, rn)

\* Mutant: the loop variable advances by one.
NextBatchByOne(tk, rn) == EnterLoop(tk, [rn EXCEPT !.i = @ + 1])

\* i += maxConcurrent
NextBatch(tk, rn) == EnterLoop(tk, [rn EXCEPT !.i = @ + rn.maxConcurrent])

\* Promise.all of the batch has rejected with f, or batch.map has thrown f: the
\* catch around the batch either rethrows, which rejects the call, or lets the
\* loop go on, leaving the promises of the batch behind.
OuterCatchOf(tk, rn, f) ==
  IF OuterCatch(rn.abortOnError) = "throw"
  THEN [tasks |-> tk, parallel |-> [rn EXCEPT !.status = "rejected", !.thrown = f]]
  ELSE NextBatch([k \in TaskIds |-> IF k \in Batch(rn) THEN [tk[k] EXCEPT !.watched = FALSE] ELSE tk[k]],
                 rn)

\* The promise the runner holds for a task of the current batch has rejected with f.
OnFailure(tk, rn, f) ==
  IF InnerCatch(rn.abortOnError) = "collect"
  THEN [tasks |-> tk, parallel |-> [rn EXCEPT !.errors = Append(@, f)]]
  ELSE OuterCatchOf(tk, rn, f)

\* The body of the loop up to `await Promise.all`, with the promise reactions
\* that follow at once.  Inside an async function of the runner every task of
\* the batch is invoked, and one that throws gives a rejected promise; in
\* executeParallelTasks the first task function that throws ends batch.map: the
\* tasks before it are running with nothing attached to their promises, the
\* tasks after it are not invoked.
StartBatch(tk, rn) ==
  LET G == Batch(rn)
      T == {k \in G : tk[k].throws}
      t == CHOOSE k \in T : \A j \in T : k <= j
      started(k) == [tk[k] EXCEPT !.own = "running", !.race = "pending", !.watched = TRUE,
                                  !.timer = Timed(rn.impl)]
  IN IF T = {}
     THEN [tasks |-> [k \in TaskIds |-> IF k \in G THEN started(k) ELSE tk[k]], parallel |-> rn]
     ELSE IF InvokedInsideAsync(rn.impl)
          THEN LET tk1 == [k \in TaskIds |->
                             IF k \in T
                             THEN [tk[k] EXCEPT !.own = "threw", !.race = "thrown", !.watched = TRUE,
                                                !.timer = Timed(rn.impl)]
                             ELSE IF k \in G THEN started(k) ELSE tk[k]]
                   rn1 == NoteFailure(rn, Failure(t, "thrown"))
               IN IF InnerCatch(rn.abortOnError) = "collect"
                  THEN [tasks |-> tk1,
                        parallel |-> [rn1 EXCEPT !.errors =
                                        @ \o [j \in 1..Cardinality(T) |-> Failure(InOrder(T)[j], "thrown")]]]
                  ELSE OuterCatchOf(tk1, rn1, Failure(t, "thrown"))
          ELSE LET tk1 == [k \in TaskIds |->
                             IF k \in G /\ k < t THEN [started(k) EXCEPT !.watched = FALSE]
                             ELSE IF k = t THEN [tk[k] EXCEPT !.own = "threw"]
                             ELSE tk[k]]
               IN OuterCatchOf(tk1, NoteFailure(rn, Failure(t, "thrown")), Failure(t, "thrown"))

\* Promise.all of the current batch has fulfilled and the loop has not yet gone on.
PromiseAllFulfilled ==
  /\ parallel.status = "running"
  /\ \A k \in Batch(parallel) : tasks[k].watched /\ tasks[k].race \notin {"none", "pending"}

\* The call of a runner from its entry to its first await or to its end: the
\* result lists are empty and the loop is entered with i = 0.
UpToFirstAwait(impl, n, mc, abort, T) ==
  LET rn == [NoParallel EXCEPT !.impl = impl, !.status = "running", !.n = n,
                               !.maxConcurrent = mc, !.abortOnError = abort]
      tk == [k \in TaskIds |-> [NewParallelTask EXCEPT !.throws = k \in T]]
  IN EnterLoop(tk, rn)

\* executeParallel(tasks, maxConcurrent, abortOnError), the same through the
\* wrapper of FirecrawlClient.executeParallel, or executeParallelTasks(tasks,
\* options), with n tasks of which those in T throw when invoked.
ExecuteParallel(impl, n, mc, abort, T) ==
  /\ parallel.status = "idle"
  /\ LET after == UpToFirstAwait(impl, n, mc, abort, T)
     IN /\ tasks' = after.tasks
        /\ parallel' = after.parallel
  /\ UNCHANGED <<queueVars, streamVars, pollVars>>

\* The promise of task k settles: fulfilled with the task's value or with null,
\* or rejected.  If the race is still open it settles the same way.
ParallelTaskSettles(k, o) ==
  /\ ~PromiseAllFulfilled
  /\ tasks[k].own = "running"
  /\ LET open == tasks[k].race = "pending"
         f == Failure(k, "error")
         tk == [tasks EXCEPT ![k].own = o, ![k].race = IF open THEN o ELSE @]
         failed == open /\ o = "error"
         rn == IF failed THEN NoteFailure(parallel, f) ELSE parallel
         after == IF failed /\ tasks[k].watched /\ parallel.status = "running"
                  THEN OnFailure(tk, rn, f)
                  ELSE [tasks |-> tk, parallel |-> rn]
     IN /\ tasks' = after.tasks
        /\ parallel' = after.parallel
  /\ UNCHANGED <<queueVars, streamVars, pollVars>>

\* The timeout timer of task k fires; timers of one duration fire in the order
\* they were set.  If the race is still open it rejects with the timeout error.
ParallelTimerFires(k) ==
  /\ ~PromiseAllFulfilled
  /\ tasks[k].timer
  /\ \A j \in TaskIds : j < k => ~tasks[j].timer
  /\ LET open == tasks[k].race = "pending"
         f == Failure(k, "timeout")
         tk == [tasks EXCEPT ![k].timer = FALSE, ![k].race = IF open THEN "timeout" ELSE @]
         rn == IF open THEN NoteFailure(parallel, f) ELSE parallel
         after == IF open /\ tasks[k].watched /\ parallel.status = "running"
                  THEN OnFailure(tk, rn, f)
                  ELSE [tasks |-> tk, parallel |-> rn]
     IN /\ tasks' = after.tasks
        /\ parallel' = after.parallel
  /\ UNCHANGED <<queueVars, streamVars, pollVars>>

\* The rest of the loop's body after `await Promise.all`, and the loop's next
\* pass up to its await or to the end of the call.
AfterPromiseAll(tk, rn) ==
  LET kept == SelectSeq(InOrder(Batch(rn)), LAMBDA k : IsKept(BatchResult(tk, k)))
  IN NextBatch(tk, [rn EXCEPT !.results = @ \o kept])

\* `await Promise.all` returns: the results that are not null are pushed in the
\* order of the batch, and the loop goes on.
BatchSettles ==
  /\ PromiseAllFulfilled
  /\ parallel.i + parallel.maxConcurrent > -MaxEmptyRounds
  /\ LET after == AfterPromiseAll(tasks, parallel)
     IN /\ tasks' = after.tasks
        /\ parallel' = after.parallel
  /\ UNCHANGED <<queueVars, streamVars, pollVars>>

\* ------------------------------------------- the streamed structured analysis
\* combineStreamChunks: the first function name and the concatenated arguments,
\* by whether they are there (an absent name is undefined, no arguments '').
CombineStreamChunks(chs) ==
  [functionName |-> \E j \in 1..Len(chs) : chs[j].functionName,
   functionArguments |-> \E j \in 1..Len(chs) : chs[j].functionArguments]

\* The generator's body after its loop over the stream: it throws an
\* OpenAIError when the function call is incomplete or safeJsonParse fails, and
\* returns formatStructuredResult(...) otherwise.
AfterStream(g) ==
  LET combined == CombineStreamChunks(g.stream)
  IN IF ~combined.functionName \/ ~combined.functionArguments \/ ~g.parses
     THEN "OpenAIError"
     ELSE "StructuredAnalysisResult"

\* next() on a generator that has completed.
NextOfCompleted(g) == IteratorResult("undefined", TRUE)

\* next() on the generator: the body runs to its next yield, to its return or
\* to a throw; a completed generator runs nothing.
GeneratorNext(g) ==
  IF g.state = "completed"
  THEN [generator |-> g, threw |-> FALSE, result |-> NextOfCompleted(g)]
  ELSE IF g.api = "error"
  THEN [generator |-> [g EXCEPT !.state = "completed"], threw |-> TRUE, result |-> NoIteratorResult]
  ELSE IF g.chunks < Len(g.stream)
  THEN [generator |-> [g EXCEPT !.state = "suspendedYield", !.chunks = @ + 1],
        threw |-> FALSE, result |-> IteratorResult("StreamChunk", FALSE)]
  ELSE [generator |-> [g EXCEPT !.state = "completed"],
        threw |-> AfterStream(g) = "OpenAIError",
        result |-> IF AfterStream(g) = "OpenAIError" THEN NoIteratorResult
                   ELSE IteratorResult(AfterStream(g), TRUE)]

\* runAdvancedAnalysis calls structuredAnalysisStream(options): the generator
\* object is created, none of its body runs.
StructuredAnalysisStream(api, chs, parses) ==
  /\ consumer.pc = "idle"
  /\ generator' = [NoGenerator EXCEPT !.state = "suspendedStart", !.api = api,
                                      !.stream = chs, !.parses = parses]
  /\ consumer' = [consumer EXCEPT !.pc = "loop"]
  /\ UNCHANGED <<queueVars, parallelVars, pollVars>>

\* One round of `for await (const chunk of streamGenerator)`: next() is
\* awaited; a result that is done ends the loop and its value is dropped,
\* a throw leaves runAdvancedAnalysis' try block, a chunk runs the body.
ForAwaitNext ==
  /\ consumer.pc = "loop"
  /\ LET n == GeneratorNext(generator)
     IN /\ generator' = n.generator
        /\ consumer' = IF n.threw THEN [consumer EXCEPT !.pc = "threw"]
                       ELSE IF n.result.done THEN [consumer EXCEPT !.pc = "afterLoop"]
                       ELSE [consumer EXCEPT !.streamedChunks = @ + 1]
  /\ UNCHANGED <<queueVars, parallelVars, pollVars>>

\* const streamResult = await streamGenerator.next()
NextAfterLoop ==
  /\ consumer.pc = "afterLoop"
  /\ LET n == GeneratorNext(generator)
     IN /\ generator' = n.generator
        /\ consumer' = IF n.threw THEN [consumer EXCEPT !.pc = "threw"]
                       ELSE [consumer EXCEPT !.pc = "done", !.streamResult = n.result]
  /\ UNCHANGED <<queueVars, parallelVars, pollVars>>

NetworkStep == \E r \in Requests : CallSucceeds(r) \/ \E e \in Errors : CallFails(r, e)
BackoffStep == \E r \in Requests : BackoffFires(r)
ResumeStep == \E i \in 1..Len(pending) : ResumeAfterAwait(i)
ImmediateStep == \E i \in 1..Len(pending) : ImmediateFires(i)
TimeoutStep == \E i \in 1..Len(pending) : TimeoutFires(i)

Next ==
  \/ Enqueue
  \/ NetworkStep
  \/ BackoffStep
  \/ ResumeStep
  \/ ImmediateStep
  \/ TimeoutStep
  \/ Tick

Spec == Init /\ [][Next]_vars

\* The queue constructed from whatever options its caller passes.
ConstructorInit == config \in AnyConfigs /\ Constructed

ConstructorSpec == ConstructorInit /\ [][Next]_vars

\* The clients: every request comes from a client operation.
ClientStep == \E c \in Clients : \E op \in Operations : ClientCall(c, op)
BatchStep == \E n \in 0..MaxQueries : \E mc \in 1..MaxConcurrent : \E abort \in BOOLEAN :
               BatchResearch(n, mc, abort)
TaskStep == \E k \in Queries : TaskSettles(k)
TaskTimeoutStep == \E k \in Queries : TaskTimeoutFires(k)

ClientNext ==
  \/ ClientStep
  \/ BatchStep
  \/ TaskStep
  \/ TaskTimeoutStep
  \/ GroupSettles
  \/ NetworkStep
  \/ BackoffStep
  \/ ResumeStep
  \/ ImmediateStep
  \/ TimeoutStep
  \/ Tick

\* The clients are explored with a given ceiling, the largest given retry count
\* and the coarse clock grid.
ClientConfigs ==
  [maxRequestsPerMinute : {Given(n) : n \in 1..MaxCeiling},
   retryCount : {Given(MaxRetryCount)},
   retryDelayMs : {Given(HalfWindow)}]

ClientInit == Init /\ config \in ClientConfigs

ClientSpec == ClientInit /\ [][ClientNext]_vars


\* The clients' single calls, with everything their fetches can end with.
ProviderStep == \E r \in Requests : \E resp \in Responses : ProviderResponds(r, resp)

ProviderNext ==
  \/ ClientStep
  \/ ProviderStep
  \/ BackoffStep
  \/ ResumeStep
  \/ ImmediateStep
  \/ TimeoutStep
  \/ Tick

ProviderSpec == ClientInit /\ [][ProviderNext]_vars

\* validateWithSchema: schema.parse(data); a ZodError is logged and the data is
\* returned as it came, whatever the schema says of it.
ValidateWithSchema(data) == data

\* parallelAnalysis(options): the options go through validateWithSchema, the
\* tasks are async functions around this.analyze, and the call is
\* executeParallelTasks'.
ParallelAnalysis(n, mc, abort) ==
  ExecuteParallel("parallelAnalysis", n, ValidateWithSchema(mc), abort, {})

\* A batch runner called with tasks of its caller's own.
ParallelCall ==
  \E impl \in Runners : \E n \in 0..MaxParallelTasks : \E mc \in 1..MaxGroupSize :
    \E abort \in BOOLEAN : \E T \in SUBSET (1..n) : ExecuteParallel(impl, n, mc, abort, T)
ParallelTaskStep == \E k \in TaskIds : \E o \in {"value", "null", "error"} : ParallelTaskSettles(k, o)
ParallelTimerStep == \E k \in TaskIds : ParallelTimerFires(k)

ParallelNext ==
  \/ ParallelCall
  \/ ParallelTaskStep
  \/ ParallelTimerStep
  \/ BatchSettles

\* The queue is not used: it is left at one of its configurations.
ParallelInit ==
  Init /\ config = [maxRequestsPerMinute |-> Unset, retryCount |-> Unset,
                    retryDelayMs |-> Given(HalfWindow)]

ParallelSpec == ParallelInit /\ [][ParallelNext]_vars

\* The runners with whatever number their caller passes for maxConcurrent.
AnyConcurrencyCall ==
  \E impl \in Runners : \E n \in 0..MaxParallelTasks : \E mc \in -1..MaxGroupSize :
    \E abort \in BOOLEAN : \E T \in SUBSET (1..n) : ExecuteParallel(impl, n, mc, abort, T)
ParallelAnalysisCall ==
  \E n \in 0..MaxParallelTasks : \E mc \in -1..MaxGroupSize : \E abort \in BOOLEAN :
    ParallelAnalysis(n, mc, abort)

AnyConcurrencyNext ==
  \/ AnyConcurrencyCall
  \/ ParallelAnalysisCall
  \/ ParallelTaskStep
  \/ ParallelTimerStep
  \/ BatchSettles

AnyConcurrencySpec == ParallelInit /\ [][AnyConcurrencyNext]_vars

\* The advanced example's streamed analysis, with every stream the API may send.
StreamCall ==
  \E api \in {"ok", "error"} : \E chs \in ApiStreams : \E parses \in BOOLEAN :
    StructuredAnalysisStream(api, chs, parses)

StreamNext ==
  \/ StreamCall
  \/ ForAwaitNext
  \/ NextAfterLoop

StreamSpec == ParallelInit /\ [][StreamNext]_vars

\* ------------------------------------- the polling loop of the test scripts
\* Mutant: the loop gives up on a research that has failed.
KeepsPollingUnlessFailed(status, attempts) ==
  status \notin {"completed", "failed"} /\ attempts < maxAttempts

\* The head of the loop: `finalResponse.status !== 'completed' && attempts <
\* maxAttempts`.
KeepsPolling(status, attempts) == status # "completed" /\ attempts < maxAttempts

\* Where the script stands after the head of the loop was evaluated.
AtLoopHead(p) ==
  [p EXCEPT !.pc = IF KeepsPolling(p.status, p.attempts) THEN "waiting" ELSE "done"]

\* deepResearch has returned a response of status s: finalResponse =
\* researchResponse, attempts = 0, and the loop is reached.
PollStart(script, s) ==
  /\ poll.pc = "idle"
  /\ poll' = AtLoopHead([NoPoll EXCEPT !.script = script, !.initial = s, !.status = s])
  /\ UNCHANGED <<queueVars, parallelVars, streamVars>>

\* The 10 seconds between two checks have passed: checkResearchStatus is called.
PollWaitElapses ==
  /\ poll.pc = "waiting"
  /\ poll' = [poll EXCEPT !.pc = "checking"]
  /\ UNCHANGED <<queueVars, parallelVars, streamVars>>

\* checkResearchStatus has returned a response of status s: attempts++, and
\* the head of the loop is evaluated again.
PollCheckReturns(s) ==
  /\ poll.pc = "checking"
  /\ poll' = AtLoopHead([poll EXCEPT !.status = s, !.attempts = @ + 1])
  /\ UNCHANGED <<queueVars, parallelVars, streamVars>>

\* checkResearchStatus has rejected: the exception leaves the loop for the
\* catch of the script.
PollCheckThrows ==
  /\ poll.pc = "checking"
  /\ poll' = [poll EXCEPT !.pc = "threw"]
  /\ UNCHANGED <<queueVars, parallelVars, streamVars>>

PollStartStep == \E script \in Scripts : \E s \in ResearchStatuses : PollStart(script, s)
PollCheckStep == (\E s \in ResearchStatuses : PollCheckReturns(s)) \/ PollCheckThrows

PollNext ==
  \/ PollStartStep
  \/ PollWaitElapses
  \/ PollCheckStep

\* The timer of the wait fires and every status check settles.
PollFairness == WF_vars(PollWaitElapses) /\ WF_vars(PollCheckStep)

PollFairSpec == ParallelInit /\ [][PollNext]_vars /\ PollFairness

\* Timers eventually fire and promise reactions eventually run; a task need
\* never settle.
ParallelFairness == WF_vars(ParallelTimerStep) /\ WF_vars(BatchSettles)

ParallelFairSpec == ParallelInit /\ [][ParallelNext]_vars /\ ParallelFairness

\* Every underlying call eventually settles and every scheduled timer and
\* setImmediate callback eventually runs; callers and the clock are free.
Fairness ==
  /\ WF_vars(NetworkStep)
  /\ WF_vars(BackoffStep)
  /\ WF_vars(ResumeStep)
  /\ WF_vars(ImmediateStep)
  /\ WF_vars(TimeoutStep)

\* Liveness is explored on the configurations of the coarse clock grid.
FairInit == Init /\ config \in GridConfigs

FairSpec == FairInit /\ [][Next]_vars /\ Fairness

\* batchResearch alone on the client, with the event loop's progress: every
\* reaction that is ready runs and every timer that is due fires.
BatchResearchNext ==
  \/ BatchStep
  \/ TaskStep
  \/ TaskTimeoutStep
  \/ GroupSettles
  \/ NetworkStep
  \/ BackoffStep
  \/ ResumeStep
  \/ ImmediateStep
  \/ TimeoutStep
  \/ Tick

BatchResearchFairness ==
  /\ Fairness
  /\ WF_vars(TaskStep)
  /\ WF_vars(TaskTimeoutStep)
  /\ WF_vars(GroupSettles)

BatchResearchFairSpec == ClientInit /\ [][BatchResearchNext]_vars /\ BatchResearchFairness

\* ================================================================ claims
Started(r) == req[r].st \in {"calling", "backoff", "resolved", "rejected"}

\* The rate-limit error of the claims: a FirecrawlError with status 429.
RateLimitError == FirecrawlError(RateLimitStatus)

\* The retryCount the caller asked for: the given number, or the default if none.
ConfiguredRetryCount ==
  IF config.retryCount.given THEN config.retryCount.value ELSE DefaultRetryCount

\* C1: the admissions of any window (t - 60000, t] number at most
\* maxRequestsPerMinute.  admitTimes holds the admissions of the window trailing
\* the current instant, and every admission instant is a state.
C1_RateCeiling == Len(admitTimes) <= options.maxRequestsPerMinute

\* More requests than the ceiling have been admitted and the trailing window is full.
C1_Witness ==
  /\ Len(admitOrder) > options.maxRequestsPerMinute
  /\ Len(admitTimes) = options.maxRequestsPerMinute

\* C2: the invocations of request functions in any window (t - 60000, t], first
\* attempts and retries alike, number at most maxRequestsPerMinute.
C2_AllCallsUnderCeiling == Len(callTimes) <= options.maxRequestsPerMinute

\* C3: requests are admitted in the order they were passed to enqueue (requests
\* are numbered in that order), and a started request has been admitted.
C3_FifoAdmission ==
  /\ \A k \in 1..Len(admitOrder) : admitOrder[k] = k
  /\ \A r \in Requests : Started(r) => r <= Len(admitOrder)

\* Two requests have been admitted in turn and a third waits in the queue.
C3_Witness == Len(admitOrder) >= 2 /\ queue # <<>>

\* C4: a request whose every attempt failed with a rate-limit error was invoked
\* exactly retryCount + 1 times, retryCount being the configured number (0 included).
C4_RetryThenGiveUp ==
  \A r \in Requests :
    (req[r].st = "rejected" /\ req[r].last = RateLimitError)
      => req[r].attempt = ConfiguredRetryCount + 1

\* C5: once an invocation has failed with an error that is not a rate-limit
\* error, the request is rejected with that error at once: no backoff delay is
\* pending and the request function is not invoked again.
C5_NoRetryOnOtherErrors ==
  \A r \in Requests :
    (req[r].last \in Errors /\ req[r].last # RateLimitError)
      => req[r].st = "rejected" /\ req[r].due = 0 /\ req[r].settles = 1

\* A request was rejected after a single invocation that failed with status 429
\* of another service's error class.
C5_Witness ==
  \E r \in Requests :
    /\ req[r].st = "rejected"
    /\ req[r].attempt = 1
    /\ req[r].last = OpenAIError(RateLimitStatus)

\* C6: while a request waits and the ceiling is not reached, an
\* admission attempt is scheduled that does not wait for a running request.
C6_AdmissionDecoupled ==
  (queue # <<>> /\ ~CeilingReached(RecentTimestamps(requestTimestamps)))
    => \E i \in 1..Len(pending) : pending[i].kind \in {"immediate", "timeout"}

\* C7: a request settles by its own last invocation (resolved if and only if
\* that invocation succeeded), and once a request is rejected every other
\* request that has been enqueued still settles.
C7_FailureIsolation ==
  /\ [](\A s \in Requests :
          (Settled(s) /\ req[s].last # NoResult) => (req[s].st = "resolved" <=> req[s].last = Ok))
  /\ \A s \in Requests :
       ((\E r \in Requests : req[r].st = "rejected") /\ req[s].st # "new") ~> Settled(s)

\* A request was rejected and a request enqueued after it was resolved.
C7_Witness ==
  \E r \in Requests : \E s \in Requests :
    r < s /\ req[r].st = "rejected" /\ req[s].st = "resolved"

\* C8: resolve or reject is called at most once per request, and every request
\* passed to enqueue is eventually settled.
C8_SettledExactlyOnce ==
  /\ [](\A r \in Requests : req[r].settles <= 1)
  /\ \A r \in Requests : (req[r].st # "new") ~> Settled(r)

\* Every request has been settled, the last one after the drain had to wait for the window.
C8_Witness ==
  /\ \A r \in Requests : Settled(r)
  /\ Len(admitTimes) < Len(admitOrder)

\* C9: at most one continuation of processQueue is pending, and one is pending
\* exactly while the processing flag is set.
C9_SingleDrain ==
  /\ Len(pending) <= 1
  /\ processing <=> Len(pending) = 1

\* enqueue was called twice while the rate-window timer of the drain was pending.
C9_Witness ==
  /\ Len(pending) = 1
  /\ pending[1].kind = "timeout"
  /\ Len(queue) >= 2

\* C10: every fetch of a Firecrawl client was issued by a request
\* function the queue had admitted.
C10_EveryFetchThroughQueue == \A f \in fetches : f.route = "queue"


GroupIndex(k) == (k - 1) \div parallel.maxConcurrent

\* The task was invoked.
Invoked(k) == tasks[k].own # "idle"

\* The task has succeeded, failed or timed out as far as the runner is concerned.
RaceSettled(k) == tasks[k].own = "threw" \/ tasks[k].race \notin {"none", "pending"}

\* C12: a task is invoked only when every task of every earlier group has
\* settled (succeeded, failed or timed out).
C12_GroupOrdering ==
  \A j \in 1..parallel.n : \A k \in 1..parallel.n :
    (GroupIndex(j) < GroupIndex(k) /\ Invoked(k)) => RaceSettled(j)

\* C13: the tasks in flight (invoked, own promise not yet settled) number at
\* most maxConcurrent.
C13_ConcurrencyCap ==
  Cardinality({k \in TaskIds : tasks[k].own = "running"}) <= parallel.maxConcurrent

\* The tasks that succeeded and the tasks that failed, as the runner's races
\* decided, with the error of each failure.
Succeeded == {k \in 1..parallel.n : tasks[k].race \in {"value", "null"}}

FailureOf(k) == IF tasks[k].own = "threw" THEN Failure(k, "thrown") ELSE Failure(k, tasks[k].race)

Failed == {k \in 1..parallel.n : tasks[k].own = "threw" \/ tasks[k].race \in {"error", "timeout"}}

\* The call has returned with abortOnError = false.
ReturnedPartial == parallel.status = "resolved" /\ ~parallel.abortOnError

\* C14: with abortOnError = false the returned sequence holds the results of
\* exactly the tasks that succeeded, in the order of the input, and the error
\* list holds exactly the errors of the tasks that failed.
C14_SurvivorOrder ==
  ReturnedPartial =>
    /\ parallel.results = InOrder(Succeeded)
    /\ {parallel.errors[x] : x \in 1..Len(parallel.errors)} = {FailureOf(k) : k \in Failed}

\* C15: with abortOnError = false the returned successes and the accumulated
\* errors together number the input tasks.
C15_CountInvariant ==
  ReturnedPartial => Len(parallel.results) + Len(parallel.errors) = parallel.n

\* C16: with abortOnError = true the call rejects as soon as a task fails (its
\* promise rejects, its timer fires first, or its function throws), with the
\* error of the first task to fail, whatever the other tasks are doing.
C16_AbortShortCircuit ==
  (parallel.abortOnError /\ parallel.firstFailure # NoFailure) =>
    /\ parallel.status = "rejected"
    /\ parallel.thrown = parallel.firstFailure

\* The call was rejected with the error of task 2 while task 1 of the same
\* batch is still running.
C16_Witness ==
  /\ parallel.abortOnError
  /\ parallel.maxConcurrent = 2
  /\ parallel.status = "rejected"
  /\ parallel.thrown = Failure(2, "error")
  /\ tasks[1].own = "running"
  /\ tasks[1].race = "pending"

\* C17: with abortOnError = true, once a task has failed no task of a later
\* group is invoked, and the call does not return results (it never resolves).
C17_AbortStopsLaterGroups ==
  (parallel.abortOnError /\ parallel.firstFailure # NoFailure) =>
    /\ parallel.status # "resolved"
    /\ \A k \in 1..parallel.n :
         GroupIndex(k) > GroupIndex(parallel.firstFailure.task) => ~Invoked(k)

\* Task 2 failed after task 1 of its batch had succeeded; task 3, of the next
\* batch, has not been invoked and the call is rejected.
C17_Witness ==
  /\ parallel.abortOnError
  /\ parallel.n = 3
  /\ parallel.maxConcurrent = 2
  /\ tasks[1].race = "value"
  /\ parallel.firstFailure.task = 2
  /\ parallel.status = "rejected"
  /\ ~Invoked(3)

\* The race of task k was decided by its timer: the runner holds a promise
\* rejected with the timeout error.
TimedOut(k) == tasks[k].race = "timeout"

ResultsOf(k) == Cardinality({j \in 1..Len(parallel.results) : parallel.results[j] = k})
ErrorsOf(k) == Cardinality({j \in 1..Len(parallel.errors) : parallel.errors[j].task = k})

C20_PartialRunsEveryTask ==
  ~parallel.abortOnError =>
    /\ parallel.status # "rejected"
    /\ parallel.status = "resolved" => \A k \in 1..parallel.n : Invoked(k)

\* C21: a call with tasks and a maxConcurrent of zero or less is rejected (the
\* configuration error) and has invoked no task.
C21_NonPositiveMaxConcurrentRejected ==
  (parallel.status # "idle" /\ parallel.n > 0 /\ parallel.maxConcurrent <= 0) =>
    /\ parallel.status = "rejected"
    /\ \A k \in 1..parallel.n : ~Invoked(k)

\* C22: a call with an empty task list has returned the empty list, with no
\* task invoked, no timer set and no fetch issued, whatever maxConcurrent and
\* abortOnError are.
C22_EmptyInput ==
  (parallel.status # "idle" /\ parallel.n = 0) =>
    /\ parallel.status = "resolved"
    /\ parallel.results = <<>>
    /\ \A k \in TaskIds : ~Invoked(k) /\ ~tasks[k].timer
    /\ fetches = {}

\* The empty list was passed with a maxConcurrent of zero in abort mode.
C22_Witness ==
  /\ parallel.status = "resolved"
  /\ parallel.n = 0
  /\ parallel.maxConcurrent = 0
  /\ parallel.abortOnError
  /\ parallel.results = <<>>

\* C23: when maxConcurrent is at least the number of tasks, every task has
\* been invoked by the time the runner first waits.
C23_SingleGroup ==
  (parallel.status # "idle" /\ parallel.n >= 1 /\ parallel.maxConcurrent >= parallel.n) =>
    \A k \in 1..parallel.n : Invoked(k)

\* C24: the wait that starts after the k-th invocation of a rate-limited
\* request has failed (k = 1..retryCount) is retryDelayMs * k, and the request
\* function is invoked again only by the step at which what is left of that
\* wait has passed.
C24_LinearBackoff ==
  /\ [](\A r \in Requests :
          req[r].st = "backoff" =>
            /\ req[r].attempt \in 1..options.retryCount
            /\ req[r].due <= options.retryDelayMs * req[r].attempt)
  /\ [][\A r \in Requests :
          /\ (req[r].st = "calling" /\ req'[r].st = "backoff") =>
               /\ req'[r].attempt = req[r].attempt
               /\ req'[r].due = options.retryDelayMs * req[r].attempt
          /\ (req[r].st = "backoff" /\ req'[r].st # "backoff") =>
               /\ req'[r].st = "calling"
               /\ req'[r].attempt = req[r].attempt + 1
               /\ requestTimestamps' = Older(requestTimestamps, req[r].due)]_vars

\* The third wait of a request has just started: three times the delay.
C24_Witness ==
  \E r \in Requests :
    /\ req[r].st = "backoff"
    /\ req[r].attempt = 3
    /\ req[r].due = 3 * options.retryDelayMs

\* C25: every option the constructor was not given has its default (60
\* requests per minute, 3 retries, 1000 ms), whatever was given for the others.
C25_DefaultOptions ==
  /\ ~config.maxRequestsPerMinute.given => options.maxRequestsPerMinute = 60
  /\ ~config.retryCount.given => options.retryCount = 3
  /\ ~config.retryDelayMs.given => options.retryDelayMs = 1000

\* A queue constructed without options is in the third wait of a request: 3000 ms.
C25_Witness ==
  /\ config = [maxRequestsPerMinute |-> Unset, retryCount |-> Unset, retryDelayMs |-> Unset]
  /\ options = [maxRequestsPerMinute |-> 60, retryCount |-> 3, retryDelayMs |-> 1000]
  /\ \E r \in Requests : req[r].st = "backoff" /\ req[r].attempt = 3 /\ req[r].due = 3000

\* The options the constructor was given that are not valid: a ceiling or a
\* delay that is not positive, a retry count that is negative.
InvalidOptions ==
  {x \in {"maxRequestsPerMinute", "retryDelayMs"} : config[x].given /\ config[x].value <= 0}
  \cup {x \in {"retryCount"} : config[x].given /\ config[x].value < 0}

\* The defaults of the constructor, by option.
DefaultOptions ==
  [maxRequestsPerMinute |-> DefaultMaxRequestsPerMinute,
   retryCount |-> DefaultRetryCount,
   retryDelayMs |-> DefaultRetryDelayMs]

\* C30: no queue takes requests with an option that was given an invalid value
\* and was either accepted as given or replaced by the default.
C30_InvalidOptionsReported ==
  nextId > 1 =>
    \A x \in InvalidOptions : options[x] # config[x].value /\ options[x] # DefaultOptions[x]

\* C26: the next() called after the for-await loop has consumed every chunk
\* gives the final StructuredAnalysisResult as its value.
C26_NextAfterLoopGivesResult ==
  consumer.pc = "done" => consumer.streamResult.value = "StructuredAnalysisResult"

\* The rate-window timers that are pending.
Deferrals == {i \in 1..Len(pending) : pending[i].kind = "timeout"}

\* C27: a run of processQueue that finds the ceiling reached admits nothing and
\* leaves exactly one timer, due after (60000 - age of the oldest timestamp) +
\* 100 ms; the run of processQueue that timer starts admits the head of the queue.
C27_DeferredAdmissionProgress ==
  /\ [](/\ Cardinality(Deferrals) <= 1
        /\ Deferrals # {} => queue # <<>> /\ processing)
  /\ [][/\ (Deferrals = {} /\ Deferrals' # {}) =>
            /\ admitOrder' = admitOrder
            /\ Len(requestTimestamps') >= options.maxRequestsPerMinute
            /\ \A i \in Deferrals' :
                 pending'[i].due = (WindowMs - requestTimestamps'[1]) + BufferMs
        /\ (\E i \in Deferrals : TimeoutFires(i)) =>
            /\ admitOrder' = Append(admitOrder, Head(queue))
            /\ req'[Head(queue)].st = "calling"
            /\ Deferrals' = {}]_vars

\* Half a window after the admission that reached the ceiling, a request is
\* waiting for the timer set for the other half of the window plus the buffer.
C27_Witness ==
  /\ Len(requestTimestamps) = options.maxRequestsPerMinute
  /\ requestTimestamps[1] = HalfWindow
  /\ queue # <<>>
  /\ \E i \in Deferrals : pending[i].due = HalfWindow + BufferMs

\* C28: a rate-limit error on attempt k <= retryCount is not passed to the
\* caller: the request waits and is invoked again, with its promise unsettled;
\* when attempt k + 1 then succeeds the promise is resolved, once, with that
\* result, the request function having been invoked k + 1 times, and it is
\* never rejected afterwards.
C28_TransparentRetry ==
  /\ [](\A r \in Requests :
          /\ (req[r].st \in {"calling", "backoff"} /\ req[r].attempt >= 1) => req[r].settles = 0
          /\ (req[r].st = "calling" /\ req[r].attempt >= 2) =>
               /\ req[r].last = RateLimitError
               /\ req[r].attempt <= options.retryCount + 1
          /\ req[r].st = "resolved" => req[r].settles = 1)
  /\ [][\A r \in Requests :
          /\ (req[r].st = "calling" /\ req'[r].st = "rejected") =>
               ~(req'[r].last = RateLimitError /\ req[r].attempt <= options.retryCount)
          /\ (req[r].st = "calling" /\ req'[r].st = "resolved") =>
               /\ req'[r].last = Ok
               /\ req'[r].attempt = req[r].attempt
          /\ req[r].st = "resolved" => req'[r].st = "resolved"]_vars

\* A request that was rate limited twice has succeeded at its third invocation.
C28_Witness ==
  \E r \in Requests :
    /\ req[r].st = "resolved"
    /\ req[r].attempt = 3
    /\ req[r].last = Ok
    /\ req[r].settles = 1

\* C29: the timestamp list is ordered, oldest first; its length changes only in
\* a run of processQueue that admits or defers; after such a run every entry is
\* less than 60000 ms old; an admission leaves the purged list with one entry
\* for now appended, a deferral leaves the purged list.
C29_RateWindowInvariant ==
  /\ [](\A j, k \in 1..Len(requestTimestamps) : j < k => requestTimestamps[j] >= requestTimestamps[k])
  /\ [][LET Admitted == admitOrder' # admitOrder
            Deferred == Deferrals = {} /\ Deferrals' # {}
        IN /\ Len(requestTimestamps') # Len(requestTimestamps) => Admitted \/ Deferred
           /\ (Admitted \/ Deferred) =>
                \A j \in 1..Len(requestTimestamps') : requestTimestamps'[j] < WindowMs
           /\ Admitted =>
                /\ Len(admitOrder') = Len(admitOrder) + 1
                /\ \E d \in {0} \cup {pending[i].due : i \in Deferrals} :
                     requestTimestamps' =
                       Append(SelectSeq(Older(requestTimestamps, d), LAMBDA a : a < WindowMs), 0)
           /\ Deferred =>
                requestTimestamps' = SelectSeq(requestTimestamps, LAMBDA a : a < WindowMs)]_vars

\* The third admission found the first timestamp a window old and purged it.
C29_Witness ==
  /\ Len(admitOrder) = 3
  /\ requestTimestamps = <<HalfWindow, 0>>
  /\ req[admitOrder[3]].st = "calling"

\* The continuations of processQueue that will run it again: an awaited
\* request, a pending setImmediate callback, a pending rate-window timer.
DrainContinuations ==
  {i \in 1..Len(pending) : pending[i].kind \in {"await", "immediate", "timeout"}}

\* C31: while requests wait in the queue the processing flag is set and a
\* continuation of processQueue is pending; the flag is clear only when the
\* queue is empty.
C31_NoStrandedWork ==
  /\ queue # <<>> => processing /\ DrainContinuations # {}
  /\ ~processing => queue = <<>>

\* Two requests wait in the queue while the setImmediate callback of the drain is pending.
C31_Witness ==
  /\ Len(queue) = 2
  /\ processing
  /\ \E i \in DrainContinuations : pending[i].kind = "immediate"

\* The query k has timed out in the runner while its request is still in the
\* pending-task list of the queue.
WaitingTimedOut(k) ==
  /\ task[k].st = "timedOut"
  /\ task[k].r \in Requests
  /\ req[task[k].r].st = "queued"

InQueue(r) == \E i \in 1..Len(queue) : queue[i] = r

\* The step admits the request r: it leaves the pending-task list, takes the
\* newest slot of the rate window and issues its HTTP call through the queue.
AdmittedNow(r) ==
  /\ req'[r].st = "calling"
  /\ ~(\E i \in 1..Len(queue') : queue'[i] = r)
  /\ admitOrder' = Append(admitOrder, r)
  /\ requestTimestamps' # <<>>
  /\ requestTimestamps'[Len(requestTimestamps')] = 0
  /\ [client |-> "firecrawl/client", op |-> "batchResearch", route |-> "queue"] \in fetches'

\* C32: in batchResearch, a query whose runner timeout fires while its request
\* waits in the rate-limited queue is not removed from the queue (the timer
\* step leaves the pending-task list alone and the request stays in it); the
\* request is later admitted, and it leaves the list only by being admitted,
\* taking a slot of the rate window and issuing its HTTP call; the runner
\* discards the result: the query stays timed out and never enters the results.
C32_TimedOutRequestStillRuns ==
  /\ [](\A k \in Queries : WaitingTimedOut(k) => InQueue(task[k].r))
  /\ [][\A k \in Queries : TaskTimeoutFires(k) => queue' = queue]_vars
  /\ [][\A k \in Queries :
         (WaitingTimedOut(k) /\ req'[task[k].r].st # "queued") => AdmittedNow(task[k].r)]_vars
  /\ \A k \in Queries :
       WaitingTimedOut(k) ~> (task[k].st = "timedOut" /\ Started(task[k].r))
  /\ [][\A k \in Queries : task[k].st = "timedOut" => task'[k] = [task[k] EXCEPT !.due = task'[k].due]]_vars
  /\ [](\A k \in Queries : task[k].st = "timedOut" => \A i \in 1..Len(run.results) : run.results[i] # k)

\* The second query of a group of two timed out while its request waited for
\* the one slot of the window; the request has since been admitted and
\* resolved, and the run has returned without its result.
C32_Witness ==
  /\ options.maxRequestsPerMinute = 1
  /\ run.status = "resolved"
  /\ run.maxConcurrent = 2
  /\ task[2].st = "timedOut"
  /\ task[2].r = 2
  /\ req[2].st = "resolved"
  /\ admitOrder = <<1, 2>>
  /\ run.results = <<1>>

\* C33: in executeParallelTasks with abortOnError = false, a task function that
\* throws when invoked is the failure of that one task: once the call has
\* returned its error is in the error list, the other tasks of its group were
\* invoked and those that gave a value are among the results, and the tasks of
\* the later groups were invoked.
C33_SyncThrowIsOneFailure ==
  (parallel.impl = "executeParallelTasks" /\ ReturnedPartial) =>
    \A k \in 1..parallel.n :
      tasks[k].throws =>
        /\ \E x \in 1..Len(parallel.errors) : parallel.errors[x] = Failure(k, "thrown")
        /\ \A j \in 1..parallel.n :
             (GroupIndex(j) = GroupIndex(k) /\ ~tasks[j].throws) =>
               /\ Invoked(j)
               /\ tasks[j].race = "value" => \E x \in 1..Len(parallel.results) : parallel.results[x] = j
        /\ \A j \in 1..parallel.n :
             (GroupIndex(j) > GroupIndex(k) /\ ~tasks[j].throws) => Invoked(j)

\* The two runners that race their tasks against a timer.
TimedRunners == {"client.executeParallel", "executeParallelTasks"}

OtherRunner(impl) ==
  IF impl = "executeParallelTasks" THEN "client.executeParallel" ELSE "executeParallelTasks"

\* What a caller can tell two runs apart by: the tasks invoked so far, the
\* group the loop is at, the successes so far and whether the call has
\* returned or rejected.
SameRun(a, b) ==
  /\ {k \in TaskIds : a.tasks[k].own # "idle"} = {k \in TaskIds : b.tasks[k].own # "idle"}
  /\ a.parallel.i = b.parallel.i
  /\ a.parallel.results = b.parallel.results
  /\ a.parallel.status = b.parallel.status

\* C34: FirecrawlClient.executeParallel and executeParallelTasks agree: given
\* the same task list, maxConcurrent and abortOnError, and from then on the
\* same state of the tasks, each step of one runner that starts a group (the
\* call itself, and the return of Promise.all) invokes the same tasks, stands
\* at the same group, holds the same successes and has returned or rejected
\* exactly when the same step of the other runner would have.  (The steps in
\* between, a task or a timer settling a race, are the same code in both.)
C34_RunnersAgree ==
  [][\A impl \in TimedRunners :
       /\ \A n \in 0..MaxParallelTasks : \A mc \in 1..MaxGroupSize : \A abort \in BOOLEAN :
            \A T \in SUBSET (1..n) :
              ExecuteParallel(impl, n, mc, abort, T) =>
                SameRun([tasks |-> tasks', parallel |-> parallel'],
                        UpToFirstAwait(OtherRunner(impl), n, mc, abort, T))
       /\ (parallel.impl = impl /\ BatchSettles) =>
            SameRun([tasks |-> tasks', parallel |-> parallel'],
                    AfterPromiseAll(tasks, [parallel EXCEPT !.impl = OtherRunner(impl)]))]_vars

\* C35: when the call has returned and no task has failed or timed out (every
\* race was won by the task's fulfilment), the returned sequence holds exactly
\* one result per input task, in input order, whatever abortOnError and the
\* positive maxConcurrent are.
C35_OneResultPerTask ==
  (/\ parallel.status = "resolved"
   /\ parallel.maxConcurrent >= 1
   /\ \A k \in 1..parallel.n : tasks[k].race \in {"value", "null"}) =>
    parallel.results = [k \in 1..parallel.n |-> k]

\* ceil(n / m) for m >= 1.
CeilDiv(n, m) == (n + m - 1) \div m

\* The passes of the loop begun so far: the loop variable starts at the first
\* task and advances by maxConcurrent after each pass.
RoundsBegun == (parallel.i - 1) \div parallel.maxConcurrent + (IF parallel.status = "resolved" THEN 0 ELSE 1)

\* C36: a call of executeParallelTasks with a positive maxConcurrent ends, by
\* returning or by rejecting, even when its tasks never settle, timers firing
\* in the end; it never begins more than ceil(n / maxConcurrent) passes of its
\* loop, and it has made exactly that many when it returns.
C36_AlwaysTerminates ==
  /\ (parallel.impl = "executeParallelTasks" /\ parallel.status = "running")
       ~> (parallel.status \in {"resolved", "rejected"})
  /\ []((parallel.impl = "executeParallelTasks" /\ parallel.maxConcurrent >= 1) =>
          /\ RoundsBegun <= CeilDiv(parallel.n, parallel.maxConcurrent)
          /\ parallel.status = "resolved" => RoundsBegun = CeilDiv(parallel.n, parallel.maxConcurrent))

\* Three tasks in groups of two, none of which ever settled: both passes were
\* ended by the timers and the call has returned no result.
C36_Witness ==
  /\ parallel.impl = "executeParallelTasks"
  /\ parallel.n = 3
  /\ parallel.maxConcurrent = 2
  /\ parallel.status = "resolved"
  /\ \A k \in 1..3 : tasks[k].own = "running" /\ TimedOut(k)
  /\ parallel.results = <<>>
  /\ RoundsBegun = 2

\* The loop of the script has ended by its head, not by an exception.
PollingStopped == poll.pc = "done"

\* A status check has returned 'completed': the checks made number attempts
\* and the status in hand is that of the latest.
CheckReturnedCompleted == poll.attempts >= 1 /\ poll.status = "completed"

\* C37 as stated: the polling loop makes at most 10 status checks and then
\* ends, whatever statuses are returned; it stops before the limit exactly when
\* a check has returned 'completed' (it has stopped short of 10 checks only
\* if one did, and a check that returns 'completed' is the last), and a check
\* that returns any other status below the limit is followed by another wait.
C37_PollingAsStated ==
  /\ [](poll.attempts <= maxAttempts)
  /\ (poll.pc \in {"waiting", "checking"}) ~> (poll.pc \in {"done", "threw"})
  /\ [](PollingStopped => (poll.attempts < maxAttempts => CheckReturnedCompleted))
  /\ [][PollCheckReturns("completed") => poll'.pc = "done"]_vars
  /\ [][\A s \in ResearchStatuses \ {"completed"} :
         (PollCheckReturns(s) /\ poll'.attempts < maxAttempts) => poll'.pc = "waiting"]_vars

\* C37, amended: the polling loop makes at most 10 status checks and then
\* ends, whatever statuses are returned; it makes no check when the response
\* of deepResearch is already 'completed'; otherwise it stops short of 10
\* checks exactly when a check has returned 'completed', a check that returns
\* 'completed' is always the last, and a check that returns any other status
\* below the limit is followed by another wait.
C37_PollingBounded ==
  /\ [](poll.attempts <= maxAttempts)
  /\ (poll.pc \in {"waiting", "checking"}) ~> (poll.pc \in {"done", "threw"})
  /\ []((PollingStopped /\ poll.initial = "completed") => poll.attempts = 0)
  /\ []((PollingStopped /\ poll.initial # "completed") =>
          (poll.attempts < maxAttempts => CheckReturnedCompleted))
  /\ [][PollCheckReturns("completed") => poll'.pc = "done"]_vars
  /\ [][\A s \in ResearchStatuses \ {"completed"} :
         (PollCheckReturns(s) /\ poll'.attempts < maxAttempts) => poll'.pc = "waiting"]_vars

\* Every one of the ten checks returned a status other than 'completed', the
\* last one 'failed': the loop stopped at the limit.
C37_Witness ==
  /\ PollingStopped
  /\ poll.attempts = maxAttempts
  /\ poll.initial = "pending"
  /\ poll.status = "failed"

TypeOK ==
  /\ config \in Configs
  /\ processing \in BOOLEAN
  /\ nextId \in 1..(MaxTasks + 1)
  /\ \A r \in Requests : req[r].st \in {"new", "queued", "calling", "backoff", "resolved", "rejected"}
====
